---- MODULE Spec2Model ----
(***************************************************************************)
(* Model of the REDSHIFT_AUDIT_ENABLED AWS Config rule                     *)
(* (src/python/REDSHIFT_AUDIT_ENABLED/REDSHIFT_AUDIT_ENABLED.py).          *)
(*                                                                         *)
(* One behaviour is one invocation of lambda_handler.  pc is the position  *)
(* of the handler; every provider API call is one step whose response      *)
(* (or failure) is chosen by the environment at the time of the call.      *)
(* Python dictionaries are functions whose DOMAIN is the set of keys       *)
(* present; a missing key raises KeyError.  Error codes are sequences of   *)
(* characters so that startswith / substring tests are computed.           *)
(***************************************************************************)
EXTENDS Integers, Sequences, FiniteSets, TLC

(***************************************************************************)
(* Bounds of the model.                                                    *)
(***************************************************************************)
MaxClusters == 2
MaxPages == 2

(***************************************************************************)
(* Program constants.                                                      *)
(***************************************************************************)
DEFAULT_RESOURCE_TYPE == "AWS::Redshift::Cluster"
ACCOUNT_RESOURCE_TYPE == "AWS::::Account"
BATCH_SIZE == 100
HISTORY_LIMIT == 100
ANNOTATION_MAX == 256
ANNOTATION_KEEP == 244
TRUNCATED_SUFFIX_LEN == 12

(***************************************************************************)
(* Strings that the code inspects character by character.                  *)
(***************************************************************************)
S_AccessDenied == <<"A","c","c","e","s","s","D","e","n","i","e","d">>
S_InternalError == <<"I","n","t","e","r","n","a","l","E","r","r","o","r">>
S_ServiceError == <<"S","e","r","v","i","c","e","E","r","r","o","r">>
S_Exception == <<"E","x","c","e","p","t","i","o","n">>
S_Internal == <<"I","n","t","e","r","n","a","l">>
S_500 == <<"5","0","0">>
S_Throttling == <<"T","h","r","o","t","t","l","i","n","g">>
S_ClusterNotFound == <<"C","l","u","s","t","e","r","N","o","t","F","o","u","n","d">>

\* Error codes the provider returns in ClientError.response["Error"]["Code"].
ProviderCodes ==
    { S_AccessDenied,
      S_AccessDenied \o S_Exception,
      S_500,
      S_InternalError,
      S_Internal \o S_ServiceError,
      S_Throttling \o S_Exception,
      S_ClusterNotFound }

RAW_MESSAGE == "User: arn:aws:sts::111122223333:assumed-role/x is not authorized"
FIXED_ACCESS_DENIED_MESSAGE == "AWS Config does not have permission to assume the IAM role."

\* str.startswith
StartsWith(s, p) == Len(s) >= Len(p) /\ SubSeq(s, 1, Len(p)) = p

\* the Python operator "sub in s" on strings
Contains(s, sub) ==
    \E i \in 1..(Len(s) - Len(sub) + 1) : SubSeq(s, i, i + Len(sub) - 1) = sub

(***************************************************************************)
(* Python values.                                                          *)
(***************************************************************************)
EmptyDict == [x \in {} |-> x]
PyTrue == "True"
PyFalse == "False"
PyNone == "None"
Absent == "Absent"

\* truth value of a LoggingEnabled value (bool(x))
Truthy(v) == v = PyTrue

\* truth value of a dictionary (None and {} are both false)
Defined(d) == DOMAIN d # {}

Without(d, k) == [x \in DOMAIN d \ {k} |-> d[x]]

(***************************************************************************)
(* Trigger events.                                                         *)
(***************************************************************************)
AccountId == 900
RoleArn == "arn:aws:iam::900:role/config"
RuleName == "REDSHIFT_AUDIT_ENABLED"
NOTIFICATION_TIME == "2022-01-01T00:00:00Z"
CAPTURE_TIME == "2022-01-01T00:00:01Z"

MESSAGE_TYPES ==
    { "ConfigurationItemChangeNotification",
      "ScheduledNotification",
      "OversizedConfigurationItemChangeNotification" }

ConfigurationItem(status) ==
    [ resourceType |-> DEFAULT_RESOURCE_TYPE,
      resourceId |-> 1,
      configurationItemCaptureTime |-> CAPTURE_TIME,
      configurationItemStatus |-> status ]

ItemSummary ==
    [ resourceType |-> DEFAULT_RESOURCE_TYPE,
      resourceId |-> 1,
      configurationItemCaptureTime |-> CAPTURE_TIME ]

Scheduled ==
    [ messageType |-> "ScheduledNotification",
      notificationCreationTime |-> NOTIFICATION_TIME ]

Change(ci) ==
    [ messageType |-> "ConfigurationItemChangeNotification",
      notificationCreationTime |-> NOTIFICATION_TIME,
      configurationItem |-> ci ]

\* The notification as AWS Config sends it.
Oversized ==
    [ messageType |-> "OversizedConfigurationItemChangeNotification",
      notificationCreationTime |-> NOTIFICATION_TIME,
      configurationItemSummary |-> ItemSummary ]

\* A notification that carries the key the code reads.
OversizedSnake(summary) ==
    [ messageType |-> "OversizedConfigurationItemChangeNotification",
      notificationCreationTime |-> NOTIFICATION_TIME,
      configuration_item_summary |-> summary ]

\* Parsed bodies of event["invokingEvent"].
InvokingEvents ==
    { Scheduled,
      Without(Scheduled, "notificationCreationTime"),
      Without(Scheduled, "messageType"),
      [Scheduled EXCEPT !.messageType = "SnapshotDeliveryCompleted"],
      Oversized,
      Without(Oversized, "configurationItemSummary"),
      OversizedSnake(ItemSummary),
      OversizedSnake(EmptyDict),
      Change(EmptyDict),
      Without(Change(EmptyDict), "configurationItem"),
      EmptyDict }
    \cup { Change(ConfigurationItem(s)) : s \in {"OK", "ResourceDeleted"} }

\* event["invokingEvent"] is a JSON text: well formed (json carries its
\* parse) or not.
JsonTexts ==
    { [well_formed |-> TRUE, json |-> ie] : ie \in InvokingEvents }
    \cup { [well_formed |-> FALSE, json |-> EmptyDict] }

\* The statuses get_resource_config_history answers with.
HistoryItemStatuses == {"ResourceDiscovered", "ResourceDeleted"}

FullEvent(text, token, left) ==
    [ accountId |-> AccountId,
      invokingEvent |-> text,
      resultToken |-> token,
      eventLeftScope |-> left,
      configRuleName |-> RuleName,
      executionRoleArn |-> RoleArn ]

WellFormed(ie) == [well_formed |-> TRUE, json |-> ie]

Events ==
    { FullEvent(t, "token-1", FALSE) : t \in JsonTexts }
    \cup { FullEvent(WellFormed(ie), "TESTMODE", FALSE) :
             ie \in {Scheduled, Change(ConfigurationItem("OK"))} }
    \cup { FullEvent(WellFormed(Change(ConfigurationItem("OK"))), "token-1", TRUE) }
    \cup { Without(FullEvent(WellFormed(Scheduled), "token-1", FALSE), key) :
             key \in {"invokingEvent", "executionRoleArn"} }
    \cup { EmptyDict }

(***************************************************************************)
(* Provider responses.                                                     *)
(***************************************************************************)
\* ClusterIdentifier values of one describe_clusters listing, in the order
\* the provider returns them.
ClusterIdLists ==
    { [i \in 1..n |-> i] : n \in 0..MaxClusters }
    \cup { [i \in 1..n |-> n + 1 - i] : n \in 0..MaxClusters }

\* LoggingEnabled of one describe_logging_status response.
LogValues == {PyTrue, PyFalse, PyNone, Absent}

\* One page of get_compliance_details_by_config_rule: the ResourceId of
\* each EvaluationResult of the page.
FullPage == [i \in 1..HISTORY_LIMIT |-> i]
HistoryPages == { <<>>, FullPage }

ClientError(op, code, message) ==
    [type |-> "ClientError", op |-> op, Code |-> code, Message |-> message]

OtherError(type, what) == [type |-> type, what |-> what]

NoExc == [type |-> "none"]
NoResult == [kind |-> "none"]

(***************************************************************************)
(* State.                                                                  *)
(***************************************************************************)
VARIABLES
    pc,                  \* position of lambda_handler
    ASSUME_ROLE_MODE,    \* module parameter, fixed for the deployment
    AWS_CONFIG_CLIENT,   \* global client handle
    event,               \* argument of lambda_handler
    invoking_event,      \* json.loads(event["invokingEvent"])
    configuration_item,
    pending_clusters,    \* clusters of the listing not yet extracted
    cluster_list,        \* cluster_tuple_list of get_cluster_list
    compliance_result,
    latest_evaluations,
    old_eval,            \* current history page: [EvaluationResults, NextToken]
    old_eval_list,
    evaluations,
    evaluation_copy,
    test_mode,
    result,              \* value returned by lambda_handler
    exc,                 \* exception that left lambda_handler
    provider_error,      \* the ClientError a provider call answered with
    api_calls,           \* provider API calls made so far, in order
    put_calls,           \* put_evaluations requests made so far, in order
    pages                \* history pages the service has returned, in order

locals ==
    << invoking_event, configuration_item, pending_clusters, cluster_list,
       compliance_result, latest_evaluations, old_eval, old_eval_list,
       evaluations, evaluation_copy, test_mode >>

vars ==
    << pc, ASSUME_ROLE_MODE, AWS_CONFIG_CLIENT, event, locals, result, exc, provider_error,
       api_calls, put_calls, pages >>

Init ==
    /\ pc = "idle"
    /\ ASSUME_ROLE_MODE \in BOOLEAN
    /\ AWS_CONFIG_CLIENT = "undefined"
    /\ event = EmptyDict
    /\ invoking_event = EmptyDict
    /\ configuration_item = EmptyDict
    /\ pending_clusters = <<>>
    /\ cluster_list = <<>>
    /\ compliance_result = [type |-> "unset"]
    /\ latest_evaluations = <<>>
    /\ old_eval = [EvaluationResults |-> <<>>, NextToken |-> FALSE]
    /\ old_eval_list = <<>>
    /\ evaluations = <<>>
    /\ evaluation_copy = <<>>
    /\ test_mode = FALSE
    /\ result = NoResult
    /\ exc = NoExc
    /\ provider_error = NoExc
    /\ api_calls = <<>>
    /\ put_calls = <<>>
    /\ pages = <<>>

(***************************************************************************)
(* Error responses and the except clauses of lambda_handler.               *)
(***************************************************************************)
build_error_response(internal_error_message, internal_error_details, customer_error_code, customer_error_message) ==
    [ internalErrorMessage |-> internal_error_message,
      internalErrorDetails |-> internal_error_details,
      customerErrorMessage |-> customer_error_message,
      customerErrorCode |-> customer_error_code ]

build_internal_error_response(internal_error_message, internal_error_details) ==
    build_error_response(internal_error_message, internal_error_details,
                         S_InternalError, "InternalError")

\* is_internal_error without the "ServiceError" test.
is_internal_error_noServiceError(exception) ==
    \/ exception.type # "ClientError"
    \/ StartsWith(exception.Code, <<"5">>)
    \/ Contains(exception.Code, S_InternalError)

is_internal_error(exception) ==
    \/ exception.type # "ClientError"
    \/ StartsWith(exception.Code, <<"5">>)
    \/ Contains(exception.Code, S_InternalError)
    \/ Contains(exception.Code, S_ServiceError)

\* json.JSONDecodeError is a subclass of ValueError.
IsValueError(ex) == ex.type \in {"ValueError", "JSONDecodeError"}

\* IsCaught without the "except ValueError" clause.
IsCaught_clientOnly(ex) == ex.type = "ClientError"

\* The exceptions the try statement of lambda_handler has a clause for.
IsCaught(ex) == ex.type = "ClientError" \/ IsValueError(ex)

\* The value the matching except clause returns.
except_clause(ex) ==
    IF ex.type = "ClientError"
    THEN IF is_internal_error(ex)
         THEN build_internal_error_response(
                  "Unexpected error while completing API request", ex)
         ELSE build_error_response(
                  "Customer error while making API request", ex,
                  ex.Code, ex.Message)
    ELSE build_internal_error_response(ex.what, ex.what)

\* An exception raised at the current position: inside the try statement a
\* matching except clause turns it into the returned error response,
\* anywhere else it leaves lambda_handler.
Raise(ex, in_try) ==
    IF in_try /\ IsCaught(ex)
    THEN /\ pc' = "error"
         /\ result' = [kind |-> "error", value |-> except_clause(ex)]
         /\ exc' = NoExc
    ELSE /\ pc' = "raised"
         /\ result' = NoResult
         /\ exc' = ex

\* An exception of the program itself.
Throw(ex, in_try) == Raise(ex, in_try) /\ UNCHANGED provider_error

\* A provider call that fails with raw; ex is what reaches lambda_handler.
ApiThrow(raw, ex, in_try) ==
    /\ Raise(ex, in_try)
    /\ provider_error' = IF raw.type = "ClientError" THEN raw ELSE provider_error

\* Failures of a provider API call made inside the try statement.
ApiFailures(op) ==
    { ClientError(op, c, RAW_MESSAGE) : c \in ProviderCodes }
    \cup { OtherError("EndpointConnectionError", op) }

\* Failures of a provider API call made outside the try statement: no code
\* looks at the error, one ClientError stands for all of them.
UncaughtApiFailures(op) ==
    { ClientError(op, S_Throttling \o S_Exception, RAW_MESSAGE),
      OtherError("EndpointConnectionError", op) }

(***************************************************************************)
(* lambda_handler, lines 409-433: trigger parsing and resource fetch.      *)
(***************************************************************************)
Invoke ==
    /\ pc = "idle"
    /\ \E e \in Events : event' = e
    /\ pc' = "check_event"
    /\ UNCHANGED << ASSUME_ROLE_MODE, AWS_CONFIG_CLIENT, locals, result, exc, provider_error,
                    api_calls, put_calls, pages >>

\* check_defined(event, "event"); json.loads(event["invokingEvent"])
CheckEvent ==
    /\ pc = "check_event"
    /\ IF ~Defined(event)
       THEN /\ Throw(OtherError("Exception", "event is not defined"), FALSE)
            /\ UNCHANGED invoking_event
       ELSE IF "invokingEvent" \notin DOMAIN event
       THEN /\ Throw(OtherError("KeyError", "invokingEvent"), FALSE)
            /\ UNCHANGED invoking_event
       ELSE IF ~event.invokingEvent.well_formed
       THEN /\ Throw(OtherError("JSONDecodeError", "invokingEvent"), FALSE)
            /\ UNCHANGED invoking_event
       ELSE /\ invoking_event' = event.invokingEvent.json
            /\ pc' = "config_client"
            /\ UNCHANGED << result, exc, provider_error >>
    /\ UNCHANGED << ASSUME_ROLE_MODE, AWS_CONFIG_CLIENT, event,
                    configuration_item, pending_clusters, cluster_list,
                    compliance_result, latest_evaluations, old_eval,
                    old_eval_list, evaluations, evaluation_copy, test_mode,
                    api_calls, put_calls, pages >>

\* get_assume_role_credentials: the except clause rewrites the error
\* before raising it again.
ScrubbedAssumeRoleError(ex) ==
    IF Contains(ex.Code, S_AccessDenied)
    THEN [ex EXCEPT !.Message = FIXED_ACCESS_DENIED_MESSAGE]
    ELSE [ex EXCEPT !.Message = "InternalError", !.Code = S_InternalError]

\* get_redshift_client(service, event), called inside the try statement.
GetClient(at, next, service) ==
    /\ pc = at
    /\ IF ~ASSUME_ROLE_MODE
       THEN /\ pc' = next
            /\ AWS_CONFIG_CLIENT' =
                   IF service = "config" THEN "config" ELSE AWS_CONFIG_CLIENT
            /\ UNCHANGED << result, exc, provider_error, api_calls >>
       ELSE IF "executionRoleArn" \notin DOMAIN event
       THEN /\ Throw(OtherError("KeyError", "executionRoleArn"), TRUE)
            /\ UNCHANGED << AWS_CONFIG_CLIENT, api_calls >>
       ELSE /\ api_calls' = Append(api_calls, "assume_role")
            /\ \/ /\ pc' = next
                  /\ AWS_CONFIG_CLIENT' =
                         IF service = "config" THEN "config" ELSE AWS_CONFIG_CLIENT
                  /\ UNCHANGED << result, exc, provider_error >>
               \/ /\ \E c \in ProviderCodes :
                         LET raw == ClientError("assume_role", c, RAW_MESSAGE)
                         IN  ApiThrow(raw, ScrubbedAssumeRoleError(raw), TRUE)
                  /\ UNCHANGED AWS_CONFIG_CLIENT
               \/ /\ Throw(OtherError("EndpointConnectionError", "assume_role"), TRUE)
                  /\ UNCHANGED AWS_CONFIG_CLIENT
    /\ UNCHANGED << ASSUME_ROLE_MODE, event, locals, put_calls, pages >>

GetConfigClient == GetClient("config_client", "message_type", "config")

\* lines 420-433
CheckMessageType ==
    /\ pc = "message_type"
    /\ IF "messageType" \notin DOMAIN invoking_event
       THEN Throw(OtherError("KeyError", "messageType"), TRUE)
       ELSE IF invoking_event.messageType \in MESSAGE_TYPES
       THEN /\ pc' = "get_configuration_item"
            /\ UNCHANGED << result, exc, provider_error >>
       ELSE /\ pc' = "error"
            /\ result' = [kind |-> "error",
                          value |-> build_internal_error_response(
                                        "Unexpected message type", invoking_event)]
            /\ UNCHANGED << exc, provider_error >>
    /\ UNCHANGED << ASSUME_ROLE_MODE, AWS_CONFIG_CLIENT, event, locals,
                    api_calls, put_calls, pages >>

is_oversized_changed_notification(message_type) ==
    message_type = "OversizedConfigurationItemChangeNotification"

is_scheduled_notification(message_type) ==
    message_type = "ScheduledNotification"

\* get_configuration_item(invoking_event), without the call of
\* get_configuration
GetConfigurationItem ==
    /\ pc = "get_configuration_item"
    /\ IF is_oversized_changed_notification(invoking_event.messageType)
       THEN IF "configuration_item_summary" \notin DOMAIN invoking_event
            THEN /\ Throw(OtherError("KeyError", "configuration_item_summary"), TRUE)
                 /\ UNCHANGED configuration_item
            ELSE IF ~Defined(invoking_event.configuration_item_summary)
            THEN /\ Throw(OtherError("Exception",
                                     "configurationItemSummary is not defined"), TRUE)
                 /\ UNCHANGED configuration_item
            ELSE /\ pc' = "get_configuration"
                 /\ UNCHANGED << configuration_item, result, exc, provider_error >>
       ELSE IF is_scheduled_notification(invoking_event.messageType)
       THEN /\ configuration_item' = EmptyDict
            /\ pc' = "is_applicable"
            /\ UNCHANGED << result, exc, provider_error >>
       ELSE IF "configurationItem" \notin DOMAIN invoking_event
       THEN /\ Throw(OtherError("KeyError", "configurationItem"), TRUE)
            /\ UNCHANGED configuration_item
       ELSE IF ~Defined(invoking_event.configurationItem)
       THEN /\ Throw(OtherError("Exception", "configurationItem is not defined"), TRUE)
            /\ UNCHANGED configuration_item
       ELSE /\ configuration_item' = invoking_event.configurationItem
            /\ pc' = "is_applicable"
            /\ UNCHANGED << result, exc, provider_error >>
    /\ UNCHANGED << ASSUME_ROLE_MODE, AWS_CONFIG_CLIENT, event, invoking_event,
                    pending_clusters, cluster_list, compliance_result,
                    latest_evaluations, old_eval, old_eval_list, evaluations,
                    evaluation_copy, test_mode, api_calls, put_calls, pages >>

\* get_configuration and convert_api_configuration
GetConfiguration ==
    /\ pc = "get_configuration"
    /\ api_calls' = Append(api_calls, "get_resource_config_history")
    /\ \/ \E s \in HistoryItemStatuses :
             /\ configuration_item' = ConfigurationItem(s)
             /\ pc' = "is_applicable"
             /\ UNCHANGED << result, exc, provider_error >>
       \/ /\ Throw(OtherError("IndexError", "configurationItems"), TRUE)
          /\ UNCHANGED configuration_item
       \/ /\ Throw(OtherError("JSONDecodeError", "configuration"), TRUE)
          /\ UNCHANGED configuration_item
       \/ /\ \E ex \in ApiFailures("get_resource_config_history") : ApiThrow(ex, ex, TRUE)
          /\ UNCHANGED configuration_item
    /\ UNCHANGED << ASSUME_ROLE_MODE, AWS_CONFIG_CLIENT, event, invoking_event,
                    pending_clusters, cluster_list, compliance_result,
                    latest_evaluations, old_eval, old_eval_list, evaluations,
                    evaluation_copy, test_mode, put_calls, pages >>

is_applicable(ci, ev) ==
    IF ~Defined(ci) \/ ~Defined(ev)
    THEN TRUE
    ELSE /\ ci.configurationItemStatus \in {"OK", "ResourceDiscovered"}
         /\ ~ev.eventLeftScope

\* lines 426-429
IsApplicable ==
    /\ pc = "is_applicable"
    /\ IF is_applicable(configuration_item, event)
       THEN /\ pc' = "redshift_client"
            /\ UNCHANGED compliance_result
       ELSE /\ pc' = "normalize"
            /\ compliance_result' = [type |-> "str", value |-> "NOT_APPLICABLE"]
    /\ UNCHANGED << ASSUME_ROLE_MODE, AWS_CONFIG_CLIENT, event, invoking_event,
                    configuration_item, pending_clusters, cluster_list,
                    latest_evaluations, old_eval, old_eval_list, evaluations,
                    evaluation_copy, test_mode, result, exc, provider_error, api_calls,
                    put_calls, pages >>

(***************************************************************************)
(* Evaluations.                                                            *)
(***************************************************************************)
\* An annotation is its text and its length; None is the empty annotation.
NoAnnotation == [text |-> "", len |-> 0]
NO_CLUSTERS_ANNOTATION == [text |-> "No clusters found", len |-> 17]
AUDIT_ANNOTATION ==
    [ text |-> "Audit logging is not enforced for the cluster. Make sure to enable audit logging for the cluster. ",
      len |-> 98 ]

build_annotation(annotation_string) ==
    IF annotation_string.len > ANNOTATION_MAX
    THEN [ text |-> annotation_string.text,
           len |-> ANNOTATION_KEEP + TRUNCATED_SUFFIX_LEN ]
    ELSE annotation_string

\* build_evaluation raises KeyError when the invoking event carries no
\* notificationCreationTime.
build_evaluation_raises(ev) ==
    "notificationCreationTime" \notin DOMAIN ev.invokingEvent.json

build_evaluation(resource_id, compliance_type, ev, resource_type, annotation) ==
    LET eval_cc ==
            [ ComplianceResourceType |-> resource_type,
              ComplianceResourceId |-> resource_id,
              ComplianceType |-> compliance_type,
              OrderingTimestamp |-> ev.invokingEvent.json.notificationCreationTime ]
    IN  IF annotation.len > 0
        THEN ("Annotation" :> build_annotation(annotation)) @@ eval_cc
        ELSE eval_cc

build_evaluation_from_config_item(ci, compliance_type, annotation) ==
    LET eval_ci ==
            [ ComplianceResourceType |-> ci.resourceType,
              ComplianceResourceId |-> ci.resourceId,
              ComplianceType |-> compliance_type,
              OrderingTimestamp |-> ci.configurationItemCaptureTime ]
    IN  IF annotation.len > 0
        THEN ("Annotation" :> build_annotation(annotation)) @@ eval_ci
        ELSE eval_ci

REQUIRED_FIELDS ==
    { "ComplianceResourceType", "ComplianceResourceId", "ComplianceType",
      "OrderingTimestamp" }

(***************************************************************************)
(* evaluate_compliance, lines 135-172.                                     *)
(***************************************************************************)
GetRedshiftClient == GetClient("redshift_client", "describe_clusters", "redshift")

\* get_cluster_list: the describe_clusters listing
DescribeClusters ==
    /\ pc = "describe_clusters"
    /\ api_calls' = Append(api_calls, "describe_clusters")
    /\ \/ \E ids \in ClusterIdLists :
             /\ pending_clusters' = ids
             /\ cluster_list' = <<>>
             /\ pc' = IF ids = <<>> THEN "evaluate" ELSE "cluster_parameters"
             /\ UNCHANGED << result, exc, provider_error >>
       \/ /\ \E ex \in ApiFailures("describe_clusters") : ApiThrow(ex, ex, TRUE)
          /\ UNCHANGED << pending_clusters, cluster_list >>
    /\ UNCHANGED << ASSUME_ROLE_MODE, AWS_CONFIG_CLIENT, event, invoking_event,
                    configuration_item, compliance_result, latest_evaluations,
                    old_eval, old_eval_list, evaluations, evaluation_copy,
                    test_mode, put_calls, pages >>

\* get_parameters_for_cluster_parameter_group for the next cluster
ClusterParameters ==
    /\ pc = "cluster_parameters"
    /\ api_calls' = Append(api_calls, "describe_cluster_parameters")
    /\ \/ /\ pc' = "logging_status"
          /\ UNCHANGED << result, exc, provider_error >>
       \/ \E ex \in ApiFailures("describe_cluster_parameters") : ApiThrow(ex, ex, TRUE)
    /\ UNCHANGED << ASSUME_ROLE_MODE, AWS_CONFIG_CLIENT, event, locals,
                    put_calls, pages >>

\* get_logging_status for the next cluster and the append of its tuple
LoggingStatus ==
    /\ pc = "logging_status"
    /\ api_calls' = Append(api_calls, "describe_logging_status")
    /\ \/ \E v \in LogValues :
             IF v = Absent
             THEN /\ Throw(OtherError("KeyError", "LoggingEnabled"), TRUE)
                  /\ UNCHANGED << pending_clusters, cluster_list >>
             ELSE /\ cluster_list' =
                         Append(cluster_list,
                                << Head(pending_clusters), [log_enabled |-> v] >>)
                  /\ pending_clusters' = Tail(pending_clusters)
                  /\ pc' = IF Tail(pending_clusters) = <<>>
                           THEN "evaluate" ELSE "cluster_parameters"
                  /\ UNCHANGED << result, exc, provider_error >>
       \/ /\ \E ex \in ApiFailures("describe_logging_status") : ApiThrow(ex, ex, TRUE)
          /\ UNCHANGED << pending_clusters, cluster_list >>
    /\ UNCHANGED << ASSUME_ROLE_MODE, AWS_CONFIG_CLIENT, event, invoking_event,
                    configuration_item, compliance_result, latest_evaluations,
                    old_eval, old_eval_list, evaluations, evaluation_copy,
                    test_mode, put_calls, pages >>

\* ClusterVerdict with the two verdicts exchanged.
ClusterVerdict_swapped(log_enabled) ==
    IF Truthy(log_enabled) THEN "NON_COMPLIANT" ELSE "COMPLIANT"

\* The branch of the if / elif / else of lines 152-171 a value takes.
ClusterVerdict(log_enabled) ==
    IF ~Truthy(log_enabled) THEN "NON_COMPLIANT"
    ELSE IF Truthy(log_enabled) THEN "COMPLIANT"
    ELSE "ValueError"

ClusterEvaluation(cluster_tuple, ev) ==
    IF ClusterVerdict(cluster_tuple[2].log_enabled) = "NON_COMPLIANT"
    THEN build_evaluation(cluster_tuple[1], "NON_COMPLIANT", ev,
                          DEFAULT_RESOURCE_TYPE, AUDIT_ANNOTATION)
    ELSE build_evaluation(cluster_tuple[1], "COMPLIANT", ev,
                          DEFAULT_RESOURCE_TYPE, NoAnnotation)

\* ClusterEvaluations without scenario 1 (lines 140-149 left out).
ClusterEvaluations_noScenario1(clusters, ev) ==
    [i \in 1..Len(clusters) |-> ClusterEvaluation(clusters[i], ev)]

\* The list evaluate_compliance returns for a cluster list.
ClusterEvaluations(clusters, ev) ==
    IF clusters = <<>>
    THEN << build_evaluation(ev.accountId, "NOT_APPLICABLE", ev,
                             ACCOUNT_RESOURCE_TYPE, NO_CLUSTERS_ANNOTATION) >>
    ELSE [i \in 1..Len(clusters) |-> ClusterEvaluation(clusters[i], ev)]

\* The exception evaluate_compliance raises for a cluster list, if any: the
\* one of the first cluster that raises.
EvaluationException(clusters, ev) ==
    IF clusters = <<>>
    THEN IF build_evaluation_raises(ev)
         THEN OtherError("KeyError", "notificationCreationTime") ELSE NoExc
    ELSE LET raising == { i \in 1..Len(clusters) :
                            \/ ClusterVerdict(clusters[i][2].log_enabled) = "ValueError"
                            \/ build_evaluation_raises(ev) }
         IN  IF raising = {} THEN NoExc
             ELSE LET first == CHOOSE i \in raising : \A j \in raising : i <= j
                  IN  IF ClusterVerdict(clusters[first][2].log_enabled) = "ValueError"
                      THEN OtherError("ValueError", "No valid value processed.")
                      ELSE OtherError("KeyError", "notificationCreationTime")

\* lines 139-172 and the assignment of line 427
Evaluate ==
    /\ pc = "evaluate"
    /\ LET ex == EvaluationException(cluster_list, event)
       IN  IF ex # NoExc
           THEN /\ Throw(ex, TRUE)
                /\ UNCHANGED compliance_result
           ELSE /\ compliance_result' =
                       [type |-> "list", value |-> ClusterEvaluations(cluster_list, event)]
                /\ pc' = "normalize"
                /\ UNCHANGED << result, exc, provider_error >>
    /\ UNCHANGED << ASSUME_ROLE_MODE, AWS_CONFIG_CLIENT, event, invoking_event,
                    configuration_item, pending_clusters, cluster_list,
                    latest_evaluations, old_eval, old_eval_list, evaluations,
                    evaluation_copy, test_mode, api_calls, put_calls, pages >>

(***************************************************************************)
(* lambda_handler, lines 448-507: normalisation of compliance_result.      *)
(***************************************************************************)
\* "not compliance_result"
Falsy(cr) ==
    \/ cr.type = "unset"
    \/ cr.type = "list" /\ cr.value = <<>>
    \/ cr.type = "str" /\ cr.value = ""

\* HasRequiredFields without the test of OrderingTimestamp.
HasRequiredFields_noTimestamp(evaluation) ==
    (REQUIRED_FIELDS \ {"OrderingTimestamp"}) \subseteq DOMAIN evaluation

HasRequiredFields(evaluation) == REQUIRED_FIELDS \subseteq DOMAIN evaluation

\* The branch of the if / elif chain of lines 451-507 a result takes.
NormalizeBranch(cr) ==
    IF Falsy(cr) THEN "empty"
    ELSE IF cr.type = "str" THEN "str"
    ELSE IF cr.type = "list" THEN "list"
    ELSE IF cr.type = "dict" THEN "dict"
    ELSE "other"

\* CleansUp that reconciles only the account-level branch.
CleansUp_accountOnly(branch) == branch = "empty"

\* The branches that call clean_up_old_evaluations (lines 460 and 490).
CleansUp(branch) == branch \in {"empty", "list"}

AfterNormalize(branch) ==
    IF CleansUp(branch) THEN "clean_up_old_evaluations" ELSE "result_token"

Normalize ==
    /\ pc = "normalize"
    /\ LET branch == NormalizeBranch(compliance_result)
       IN  CASE branch = "empty" ->
                  IF build_evaluation_raises(event)
                  THEN /\ Throw(OtherError("KeyError", "notificationCreationTime"), FALSE)
                       /\ UNCHANGED << latest_evaluations, evaluations >>
                  ELSE /\ latest_evaluations' =
                              << build_evaluation(event.accountId, "NOT_APPLICABLE",
                                                  event, ACCOUNT_RESOURCE_TYPE,
                                                  NoAnnotation) >>
                       /\ pc' = AfterNormalize(branch)
                       /\ UNCHANGED << evaluations, result, exc, provider_error >>
             [] branch = "str" ->
                  IF Defined(configuration_item)
                  THEN /\ evaluations' =
                              << build_evaluation_from_config_item(
                                     configuration_item, compliance_result.value,
                                     NoAnnotation) >>
                       /\ pc' = AfterNormalize(branch)
                       /\ UNCHANGED << latest_evaluations, result, exc, provider_error >>
                  ELSE IF build_evaluation_raises(event)
                  THEN /\ Throw(OtherError("KeyError", "notificationCreationTime"), FALSE)
                       /\ UNCHANGED << latest_evaluations, evaluations >>
                  ELSE /\ evaluations' =
                              << build_evaluation(event.accountId,
                                                  compliance_result.value, event,
                                                  DEFAULT_RESOURCE_TYPE, NoAnnotation) >>
                       /\ pc' = AfterNormalize(branch)
                       /\ UNCHANGED << latest_evaluations, result, exc, provider_error >>
             [] branch = "list" ->
                  /\ latest_evaluations' =
                         SelectSeq(compliance_result.value, HasRequiredFields)
                  /\ pc' = AfterNormalize(branch)
                  /\ UNCHANGED << evaluations, result, exc, provider_error >>
             [] branch = "dict" ->
                  /\ evaluations' =
                         IF HasRequiredFields(compliance_result.value)
                         THEN << compliance_result.value >> ELSE <<>>
                  /\ pc' = AfterNormalize(branch)
                  /\ UNCHANGED << latest_evaluations, result, exc, provider_error >>
             [] OTHER ->
                  /\ evaluations' =
                         << build_evaluation_from_config_item(
                                configuration_item, "NOT_APPLICABLE", NoAnnotation) >>
                  /\ pc' = AfterNormalize(branch)
                  /\ UNCHANGED << latest_evaluations, result, exc, provider_error >>
    /\ UNCHANGED << ASSUME_ROLE_MODE, AWS_CONFIG_CLIENT, event, invoking_event,
                    configuration_item, pending_clusters, cluster_list,
                    compliance_result, old_eval, old_eval_list,
                    evaluation_copy, test_mode, api_calls, put_calls, pages >>

(***************************************************************************)
(* clean_up_old_evaluations, lines 368-406.                                *)
(***************************************************************************)
EvaluationResult(resource_id) ==
    [ EvaluationResultIdentifier |->
        [ EvaluationResultQualifier |-> [ResourceId |-> resource_id] ] ]

HistoryPage(ids, token) ==
    [ EvaluationResults |-> [i \in 1..Len(ids) |-> EvaluationResult(ids[i])],
      NextToken |-> token ]

\* One call of get_compliance_details_by_config_rule (lines 371 and 384).
\* A page carries a NextToken only while the service has a further page.
GetComplianceDetails ==
    /\ pc = "clean_up_old_evaluations"
    /\ api_calls' = Append(api_calls, "get_compliance_details_by_config_rule")
    /\ \/ \E ids \in HistoryPages, token \in BOOLEAN :
             /\ token => Len(pages) + 1 < MaxPages
             /\ old_eval' = HistoryPage(ids, token)
             /\ pages' = Append(pages, HistoryPage(ids, token))
             /\ pc' = "collect_page"
             /\ UNCHANGED << result, exc, provider_error >>
       \/ /\ \E ex \in UncaughtApiFailures("get_compliance_details_by_config_rule") :
                ApiThrow(ex, ex, FALSE)
          /\ UNCHANGED << old_eval, pages >>
    /\ UNCHANGED << ASSUME_ROLE_MODE, AWS_CONFIG_CLIENT, event, invoking_event,
                    configuration_item, pending_clusters, cluster_list,
                    compliance_result, latest_evaluations, old_eval_list,
                    evaluations, evaluation_copy, test_mode, put_calls >>

\* HasNextToken that never follows a continuation token.
HasNextToken_never(page) == FALSE

\* "NextToken" in old_eval, line 382
HasNextToken(page) == page.NextToken

\* lines 380-391: one iteration of "while True"
CollectPage ==
    /\ pc = "collect_page"
    /\ old_eval_list' = old_eval_list \o old_eval.EvaluationResults
    /\ pc' = IF HasNextToken(old_eval)
             THEN "clean_up_old_evaluations" ELSE "compare"
    /\ UNCHANGED << ASSUME_ROLE_MODE, AWS_CONFIG_CLIENT, event, invoking_event,
                    configuration_item, pending_clusters, cluster_list,
                    compliance_result, latest_evaluations, old_eval,
                    evaluations, evaluation_copy, test_mode, result, exc, provider_error,
                    api_calls, put_calls, pages >>

OldResourceId(old) ==
    old.EvaluationResultIdentifier.EvaluationResultQualifier.ResourceId

\* newer_founded of lines 397-400
NewerFounded(old_resource_id, latest) ==
    \E i \in 1..Len(latest) : old_resource_id = latest[i].ComplianceResourceId

\* cleaned_evaluations of lines 393-404
CleanedEvaluations(old_list, latest, ev) ==
    LET stale == SelectSeq(old_list,
                           LAMBDA old : ~NewerFounded(OldResourceId(old), latest))
    IN  [ i \in 1..Len(stale) |->
            build_evaluation(OldResourceId(stale[i]), "NOT_APPLICABLE", ev,
                             DEFAULT_RESOURCE_TYPE, NoAnnotation) ]

\* lines 393-406 and the assignment of line 460 / 490
Compare ==
    /\ pc = "compare"
    /\ evaluations' =
           CleanedEvaluations(old_eval_list, latest_evaluations, event)
           \o latest_evaluations
    /\ pc' = "result_token"
    /\ UNCHANGED << ASSUME_ROLE_MODE, AWS_CONFIG_CLIENT, event, invoking_event,
                    configuration_item, pending_clusters, cluster_list,
                    compliance_result, latest_evaluations, old_eval,
                    old_eval_list, evaluation_copy, test_mode, result, exc, provider_error, provider_error,
                    api_calls, put_calls, pages >>

(***************************************************************************)
(* lambda_handler, lines 509-528: submission.                              *)
(***************************************************************************)
\* TestMode that never recognises the sentinel.
TestMode_never(result_token) == FALSE

\* test_mode of lines 511-514
TestMode(result_token) == result_token = "TESTMODE"

\* lines 510-518
ResultToken ==
    /\ pc = "result_token"
    /\ test_mode' = TestMode(event.resultToken)
    /\ evaluation_copy' = evaluations
    /\ pc' = "put_evaluations"
    /\ UNCHANGED << ASSUME_ROLE_MODE, AWS_CONFIG_CLIENT, event, invoking_event,
                    configuration_item, pending_clusters, cluster_list,
                    compliance_result, latest_evaluations, old_eval,
                    old_eval_list, evaluations, result, exc, provider_error, api_calls,
                    put_calls, pages >>

\* Take with a slice one element too long.
Take_offByOne(lst, n) == SubSeq(lst, 1, IF Len(lst) < n + 1 THEN Len(lst) ELSE n + 1)

\* lst[:n]
Take(lst, n) == SubSeq(lst, 1, IF Len(lst) < n THEN Len(lst) ELSE n)

\* lst after "del lst[:n]"
Drop(lst, n) == SubSeq(lst, n + 1, Len(lst))

\* lines 519-525: one iteration of "while evaluation_copy"
PutEvaluations ==
    /\ pc = "put_evaluations"
    /\ evaluation_copy # <<>>
    /\ api_calls' = Append(api_calls, "put_evaluations")
    /\ \/ /\ put_calls' =
                 Append(put_calls,
                        [ Evaluations |-> Take(evaluation_copy, BATCH_SIZE),
                          ResultToken |-> event.resultToken,
                          TestMode |-> test_mode ])
          /\ evaluation_copy' = Drop(evaluation_copy, BATCH_SIZE)
          /\ UNCHANGED << pc, result, exc, provider_error >>
       \/ /\ \E ex \in UncaughtApiFailures("put_evaluations") : ApiThrow(ex, ex, FALSE)
          /\ UNCHANGED << put_calls, evaluation_copy >>
    /\ UNCHANGED << ASSUME_ROLE_MODE, AWS_CONFIG_CLIENT, event, invoking_event,
                    configuration_item, pending_clusters, cluster_list,
                    compliance_result, latest_evaluations, old_eval,
                    old_eval_list, evaluations, test_mode, pages >>

\* line 528
Return ==
    /\ pc = "put_evaluations"
    /\ evaluation_copy = <<>>
    /\ pc' = "done"
    /\ result' = [kind |-> "list", value |-> evaluations]
    /\ UNCHANGED << ASSUME_ROLE_MODE, AWS_CONFIG_CLIENT, event, locals, exc, provider_error,
                    api_calls, put_calls, pages >>

Next ==
    \/ Invoke
    \/ CheckEvent
    \/ GetConfigClient
    \/ CheckMessageType
    \/ GetConfigurationItem
    \/ GetConfiguration
    \/ IsApplicable
    \/ GetRedshiftClient
    \/ DescribeClusters
    \/ ClusterParameters
    \/ LoggingStatus
    \/ Evaluate
    \/ Normalize
    \/ GetComplianceDetails
    \/ CollectPage
    \/ Compare
    \/ ResultToken
    \/ PutEvaluations
    \/ Return

Spec == Init /\ [][Next]_vars

(***************************************************************************)
(* lambda_handler from line 448 on, for custom evaluations.  The           *)
(* evaluate_compliance of this rule builds every record with               *)
(* build_evaluation; lines 475-503 also accept a list or a dictionary of   *)
(* hand-built evaluations, which may lack a field.  SpecCustom adds the    *)
(* invocations of a scheduled notification whose compliance_result is such *)
(* a value.                                                                *)
(***************************************************************************)
CustomEvaluation(resource_id) ==
    [ ComplianceResourceType |-> DEFAULT_RESOURCE_TYPE,
      ComplianceResourceId |-> resource_id,
      ComplianceType |-> "COMPLIANT",
      OrderingTimestamp |-> NOTIFICATION_TIME ]

CustomResults ==
    { [type |-> "dict", value |-> CustomEvaluation(1)] }
    \cup { [type |-> "dict", value |-> Without(CustomEvaluation(1), f)] :
             f \in REQUIRED_FIELDS }
    \cup { [type |-> "list", value |-> << Without(CustomEvaluation(1), f) >>] :
             f \in REQUIRED_FIELDS }
    \cup { [type |-> "list",
            value |-> << CustomEvaluation(1), Without(CustomEvaluation(2), f) >>] :
             f \in REQUIRED_FIELDS }
    \cup { [type |-> "list",
            value |-> << Without(CustomEvaluation(1), f), CustomEvaluation(2),
                         Without(CustomEvaluation(2), f) >>] :
             f \in REQUIRED_FIELDS }

InitCustom ==
    /\ pc = "normalize"
    /\ ASSUME_ROLE_MODE = FALSE
    /\ AWS_CONFIG_CLIENT = "config"
    /\ event = FullEvent(WellFormed(Scheduled), "token-1", FALSE)
    /\ invoking_event = Scheduled
    /\ configuration_item = EmptyDict
    /\ pending_clusters = <<>>
    /\ cluster_list = <<>>
    /\ compliance_result \in CustomResults
    /\ latest_evaluations = <<>>
    /\ old_eval = [EvaluationResults |-> <<>>, NextToken |-> FALSE]
    /\ old_eval_list = <<>>
    /\ evaluations = <<>>
    /\ evaluation_copy = <<>>
    /\ test_mode = FALSE
    /\ result = NoResult
    /\ exc = NoExc
    /\ provider_error = NoExc
    /\ api_calls = <<>>
    /\ put_calls = <<>>
    /\ pages = <<>>

SpecCustom == (Init \/ InitCustom) /\ [][Next]_vars

Terminated == pc \in {"done", "error", "raised"}

(***************************************************************************)
(* Properties.                                                             *)
(***************************************************************************)
Range(seq) == { seq[i] : i \in 1..Len(seq) }

RECURSIVE ConcatBatches(_)
ConcatBatches(calls) ==
    IF calls = <<>> THEN <<>>
    ELSE Head(calls).Evaluations \o ConcatBatches(Tail(calls))

RECURSIVE PageResourceIds(_)
PageResourceIds(ps) ==
    IF ps = <<>> THEN <<>>
    ELSE [i \in 1..Len(Head(ps).EvaluationResults) |->
            Head(ps).EvaluationResults[i].EvaluationResultIdentifier
                .EvaluationResultQualifier.ResourceId]
         \o PageResourceIds(Tail(ps))

Ceil(n, d) == (n + d - 1) \div d

Evaluated == compliance_result.type = "list"

CleanUpInvoked ==
    \/ pc = "clean_up_old_evaluations"
    \/ "get_compliance_details_by_config_rule" \in Range(api_calls)

ERROR_RESPONSE_FIELDS ==
    { "internalErrorMessage", "internalErrorDetails", "customerErrorMessage",
      "customerErrorCode" }

IsInternalResponse(r) ==
    /\ r.customerErrorCode = S_InternalError
    /\ r.customerErrorMessage = "InternalError"

\* C1: when evaluate_compliance returns for a non-empty cluster list, its
\* result has one evaluation per cluster, in list order, carrying the
\* cluster's identifier; a cluster with log_enabled false is NON_COMPLIANT
\* with a non-empty Annotation, one with log_enabled true is COMPLIANT with
\* no Annotation key, and no cluster with a boolean log_enabled gets any
\* other verdict.
C1_PerClusterVerdicts ==
    (Evaluated /\ cluster_list # <<>>) =>
        LET evs == compliance_result.value
        IN  /\ Len(evs) = Len(cluster_list)
            /\ \A i \in 1..Len(cluster_list) :
                   LET le == cluster_list[i][2].log_enabled
                       e == evs[i]
                   IN  /\ e.ComplianceResourceId = cluster_list[i][1]
                       /\ le = PyFalse =>
                              /\ e.ComplianceType = "NON_COMPLIANT"
                              /\ "Annotation" \in DOMAIN e
                              /\ e.Annotation.len > 0
                       /\ le = PyTrue =>
                              /\ e.ComplianceType = "COMPLIANT"
                              /\ "Annotation" \notin DOMAIN e
                       /\ le \in {PyTrue, PyFalse} =>
                              e.ComplianceType \in {"COMPLIANT", "NON_COMPLIANT"}

\* evaluate_compliance has returned for two or more clusters listed in
\* descending order, the first logging, the second not.
C1_Witness ==
    /\ Evaluated
    /\ Len(cluster_list) >= 2
    /\ cluster_list[1][1] > cluster_list[2][1]
    /\ cluster_list[1][2].log_enabled = PyTrue
    /\ cluster_list[2][2].log_enabled = PyFalse

\* C2: when get_cluster_list returns the empty list, evaluate_compliance
\* returns exactly one evaluation (NOT_APPLICABLE, AWS::::Account, the
\* event's accountId, Annotation "No clusters found"), and the list
\* lambda_handler returns is that evaluation preceded only by NOT_APPLICABLE
\* evaluations of resource ids taken from the compliance history.
C2_NoClusters ==
    (Evaluated /\ cluster_list = <<>>) =>
        LET evs == compliance_result.value
        IN  /\ Len(evs) = 1
            /\ evs[1].ComplianceType = "NOT_APPLICABLE"
            /\ evs[1].ComplianceResourceType = "AWS::::Account"
            /\ evs[1].ComplianceResourceId = event.accountId
            /\ "Annotation" \in DOMAIN evs[1]
            /\ evs[1].Annotation.text = "No clusters found"
            /\ pc = "done" =>
                   LET prior == Range(PageResourceIds(pages))
                   IN  /\ result.kind = "list"
                       /\ Len(result.value) >= 1
                       /\ result.value[Len(result.value)] = evs[1]
                       /\ \A i \in 1..(Len(result.value) - 1) :
                              /\ result.value[i].ComplianceType = "NOT_APPLICABLE"
                              /\ result.value[i].ComplianceResourceType = DEFAULT_RESOURCE_TYPE
                              /\ result.value[i].ComplianceResourceId \in prior

\* lambda_handler has returned after an empty cluster listing, with stale
\* entries in front of the account evaluation.
C2_Witness ==
    /\ Evaluated
    /\ cluster_list = <<>>
    /\ pc = "done"
    /\ Len(result.value) > 1

\* C3: the submission loop sends the evaluations in call order, each record
\* once, in batches of 1 to 100 records; when lambda_handler returns it has
\* made ceil(N/100) calls and the batches concatenated are the returned list.
C3_Batches ==
    /\ pc \in {"put_evaluations", "done"} =>
           /\ ConcatBatches(put_calls) \o evaluation_copy = evaluations
           /\ \A i \in 1..Len(put_calls) :
                  /\ Len(put_calls[i].Evaluations) >= 1
                  /\ Len(put_calls[i].Evaluations) <= 100
    /\ pc = "done" =>
           /\ result.kind = "list"
           /\ result.value = evaluations
           /\ Len(put_calls) = Ceil(Len(result.value), 100)
           /\ ConcatBatches(put_calls) = result.value

\* lambda_handler has returned more than 100 evaluations, the last batch
\* being a partial one.
C3_Witness ==
    /\ pc = "done"
    /\ Len(put_calls) >= 2
    /\ Len(put_calls[1].Evaluations) = 100
    /\ Len(put_calls[Len(put_calls)].Evaluations) < 100

\* lambda_handler has returned exactly 100 evaluations in one call.
C3_WitnessFullBatch ==
    /\ pc = "done"
    /\ Len(put_calls) = 1
    /\ Len(result.value) = 100

HasResultToken == Defined(event) /\ "resultToken" \in DOMAIN event

C5_AccountLevelOnly ==
    (CleanUpInvoked /\ Evaluated) =>
        \A i \in 1..Len(compliance_result.value) :
            compliance_result.value[i].ComplianceResourceType = "AWS::::Account"

\* C5 amended: clean_up_old_evaluations is invoked exactly when
\* evaluate_compliance has returned its list, account-level or per-cluster;
\* it is not invoked when the result is the string NOT_APPLICABLE, nor when
\* an error response is returned.
C5_ListResultsOnly ==
    /\ CleanUpInvoked => Evaluated
    /\ (Evaluated /\ pc \in {"result_token", "put_evaluations", "done"})
           => CleanUpInvoked
    /\ compliance_result.type = "str" => ~CleanUpInvoked
    /\ pc = "error" => ~CleanUpInvoked

\* lambda_handler has returned after reconciling per-cluster evaluations.
C5_Witness ==
    /\ pc = "done"
    /\ CleanUpInvoked
    /\ cluster_list # <<>>
    /\ compliance_result.value[1].ComplianceResourceType = DEFAULT_RESOURCE_TYPE

NewResourceIds ==
    { latest_evaluations[i].ComplianceResourceId : i \in 1..Len(latest_evaluations) }

StaleResourceIds ==
    LET new == NewResourceIds
    IN  SelectSeq(PageResourceIds(pages), LAMBDA id : id \notin new)

\* C6: clean_up_old_evaluations follows the history pages while a page
\* carries NextToken and stops at the first page without one; it returns a
\* NOT_APPLICABLE evaluation for each prior result, of any page, whose
\* ResourceId is no ComplianceResourceId of the new evaluations, and for no
\* other, followed by the new evaluations unchanged.
C6_Reconciliation ==
    (pc = "result_token" /\ CleanUpInvoked) =>
        LET n == Len(evaluations) - Len(latest_evaluations)
            new == NewResourceIds
        IN  /\ Len(pages) >= 1
            /\ \A i \in 1..(Len(pages) - 1) : pages[i].NextToken
            /\ ~pages[Len(pages)].NextToken
            /\ latest_evaluations = compliance_result.value
            /\ n >= 0
            /\ SubSeq(evaluations, n + 1, Len(evaluations)) = latest_evaluations
            /\ [i \in 1..n |-> evaluations[i].ComplianceResourceId] = StaleResourceIds
            /\ \A i \in 1..n :
                   /\ evaluations[i].ComplianceType = "NOT_APPLICABLE"
                   /\ evaluations[i].ComplianceResourceId \notin new

\* clean_up_old_evaluations has returned after two or more pages, the last
\* one not empty, with a prior result that is stale and one that is not.
C6_Witness ==
    /\ pc = "result_token"
    /\ CleanUpInvoked
    /\ Len(pages) >= 2
    /\ pages[Len(pages)].EvaluationResults # <<>>
    /\ Range(PageResourceIds(pages)) \cap NewResourceIds # {}
    /\ Range(PageResourceIds(pages)) \ NewResourceIds # {}

\* C7 as stated: every failed invocation returns an error response and has
\* submitted nothing.
C7_EveryFailureIsErrorResponse ==
    pc \in {"error", "raised"} =>
        /\ result.kind = "error"
        /\ put_calls = <<>>

\* C7 amended: a ClientError or ValueError raised inside the try statement
\* of lambda_handler (client construction, get_configuration_item,
\* evaluate_compliance), and an unexpected message type, end the invocation
\* with an error response of the four fields and without any put_evaluations
\* call; a failure of the reconcile or submit step leaves lambda_handler as
\* an exception, without a return value, and no ClientError or ValueError of
\* the try statement ever does.
C7_CaughtFailures ==
    /\ pc = "error" =>
           /\ result.kind = "error"
           /\ DOMAIN result.value = ERROR_RESPONSE_FIELDS
           /\ put_calls = <<>>
           /\ "put_evaluations" \notin Range(api_calls)
    /\ pc = "raised" =>
           /\ result.kind = "none"
           /\ exc.type = "ClientError" =>
                  exc.op \in {"get_compliance_details_by_config_rule", "put_evaluations"}
           /\ exc.type \in {"ValueError", "JSONDecodeError"} =>
                  exc.what = "invokingEvent"

\* The configuration of an oversized notification was not valid JSON and
\* lambda_handler has returned the error response.
C7_Witness ==
    /\ pc = "error"
    /\ "get_resource_config_history" \in Range(api_calls)
    /\ provider_error = NoExc
    /\ result.value.internalErrorMessage = "configuration"

MissingRequiredField ==
    \/ ~Defined(event)
    \/ /\ Defined(event)
       /\ \/ "invokingEvent" \notin DOMAIN event
          \/ /\ "invokingEvent" \in DOMAIN event
             /\ event.invokingEvent.well_formed
             /\ LET ie == event.invokingEvent.json
                IN  \/ "messageType" \notin DOMAIN ie
                    \/ /\ "messageType" \in DOMAIN ie
                       /\ \/ /\ ie.messageType = "ConfigurationItemChangeNotification"
                             /\ "configurationItem" \notin DOMAIN ie
                          \/ /\ ie.messageType = "OversizedConfigurationItemChangeNotification"
                             /\ "configurationItemSummary" \notin DOMAIN ie
                             /\ "configuration_item_summary" \notin DOMAIN ie

\* C8: a trigger that lacks a required field ends the invocation with an
\* internal error response, and no provider API call has been made.
C8_MalformedTrigger ==
    (MissingRequiredField /\ Terminated) =>
        /\ result.kind = "error"
        /\ result.value.customerErrorCode = S_InternalError
        /\ api_calls = <<>>

\* C9: a ClientError caught by lambda_handler is answered with the generic
\* internal response when the code the handler sees starts with "5" or
\* contains "InternalError" or "ServiceError", else with the provider's code
\* and message; an access-denied failure of assume_role is answered with a
\* code containing "AccessDenied" and the fixed message, any other failure
\* of assume_role with the generic internal response.
C9_Classification ==
    (pc = "error" /\ provider_error # NoExc) =>
        LET code == provider_error.Code
            r == result.value
        IN  IF provider_error.op = "assume_role"
            THEN IF Contains(code, S_AccessDenied)
                 THEN /\ Contains(r.customerErrorCode, S_AccessDenied)
                      /\ r.customerErrorMessage = FIXED_ACCESS_DENIED_MESSAGE
                      /\ r.customerErrorMessage # provider_error.Message
                 ELSE IsInternalResponse(r)
            ELSE IF \/ StartsWith(code, <<"5">>)
                    \/ Contains(code, S_InternalError)
                    \/ Contains(code, S_ServiceError)
                 THEN IsInternalResponse(r)
                 ELSE /\ r.customerErrorCode = code
                      /\ r.customerErrorMessage = provider_error.Message

\* assume_role was denied and lambda_handler has returned the response.
C9_Witness ==
    /\ pc = "error"
    /\ provider_error # NoExc
    /\ provider_error.op = "assume_role"
    /\ Contains(provider_error.Code, S_AccessDenied)

\* A call other than assume_role failed with a service error code.
C9_WitnessInternal ==
    /\ pc = "error"
    /\ provider_error # NoExc
    /\ provider_error.op = "describe_logging_status"
    /\ Contains(provider_error.Code, S_ServiceError)

\* C10: a cluster whose log_enabled is neither true nor false makes
\* evaluate_compliance raise, so that no evaluation list is produced,
\* nothing is submitted and the invocation ends with an internal error
\* response.
C10_NonBooleanRaises ==
    (\E i \in 1..Len(cluster_list) :
         cluster_list[i][2].log_enabled \notin {PyTrue, PyFalse}) =>
        /\ ~Evaluated
        /\ put_calls = <<>>
        /\ Terminated =>
               /\ result.kind = "error"
               /\ result.value.customerErrorCode = S_InternalError

HasAllFour(e) ==
    /\ "ComplianceResourceType" \in DOMAIN e
    /\ "ComplianceResourceId" \in DOMAIN e
    /\ "ComplianceType" \in DOMAIN e
    /\ "OrderingTimestamp" \in DOMAIN e

\* The evaluations of compliance_result, whatever its shape.
ResultRecords ==
    IF compliance_result.type = "list" THEN compliance_result.value
    ELSE IF compliance_result.type = "dict" THEN << compliance_result.value >>
    ELSE <<>>

HasIncompleteRecord ==
    \E i \in 1..Len(ResultRecords) : ~HasAllFour(ResultRecords[i])

\* C11: every record passed to put_evaluations and every record of the
\* returned list has ComplianceResourceType, ComplianceResourceId,
\* ComplianceType and OrderingTimestamp; of a list or dictionary result the
\* records lacking one are dropped and the others kept, in order, behind the
\* stale entries; and a dropped record never fails the invocation: only a
\* failing provider call ends it without a returned list.
C11_RequiredFields ==
    /\ \A i \in 1..Len(put_calls) :
           \A j \in 1..Len(put_calls[i].Evaluations) :
               HasAllFour(put_calls[i].Evaluations[j])
    /\ pc = "done" =>
           \A i \in 1..Len(result.value) : HasAllFour(result.value[i])
    /\ (pc \in {"result_token", "put_evaluations", "done"}
            /\ compliance_result.type \in {"list", "dict"}) =>
           LET kept == SelectSeq(ResultRecords, HasAllFour)
               n == Len(evaluations) - Len(kept)
           IN  /\ n >= 0
               /\ SubSeq(evaluations, n + 1, Len(evaluations)) = kept
               /\ compliance_result.type = "dict" => n = 0
    /\ (HasIncompleteRecord /\ pc # "done") =>
           /\ pc # "error"
           /\ pc = "raised" =>
                  /\ exc.type \in {"ClientError", "EndpointConnectionError"}
                  /\ exc.type = "ClientError" =>
                         exc.op \in { "get_compliance_details_by_config_rule",
                                      "put_evaluations" }

\* lambda_handler has returned for a list result with a record that lacks a
\* field and one that does not: the latter was submitted, the former not.
C11_Witness ==
    /\ pc = "done"
    /\ compliance_result.type = "list"
    /\ HasIncompleteRecord
    /\ \E i \in 1..Len(ResultRecords) : HasAllFour(ResultRecords[i])
    /\ Len(put_calls) >= 1
    /\ \E i \in 1..Len(ResultRecords) :
           /\ HasAllFour(ResultRecords[i])
           /\ ResultRecords[i] \in Range(put_calls[Len(put_calls)].Evaluations)

\* lambda_handler has returned the empty list for a dictionary result that
\* lacks a field.
C11_WitnessDict ==
    /\ pc = "done"
    /\ compliance_result.type = "dict"
    /\ HasIncompleteRecord
    /\ result.value = <<>>
    /\ put_calls = <<>>

====
